---- MODULE Spec2Model ----
(***************************************************************************)
(* Model of app.py, the Olist e-commerce dashboard: load_data (CSV load,    *)
(* date coercion, joins), the sidebar date filter and the seven pages.      *)
(*                                                                         *)
(* A DataFrame is a sequence of records (rows in order).  Every cell is a   *)
(* sequence of length at most one: <<>> is pandas' missing value (NaN, NaT, *)
(* None) and <<v>> is the value v.  A timestamp is a number of hours since  *)
(* 1970-01-01 00:00, a date a number of days since 1970-01-01.  A float     *)
(* quotient a / b is kept exact as the pair <<a, b>>.                       *)
(***************************************************************************)
EXTENDS Integers, Sequences, FiniteSets, TLC

VARIABLES files, pc, data, error, page, start_date, end_date, top_n,
          filtered_df, filtered_orders, out

vars == <<files, pc, data, error, page, start_date, end_date, top_n,
          filtered_df, filtered_orders, out>>

\* ------------------------------------------------------------------ bounds
MaxDay == 3
MaxOrders == 2
MaxItems == 3
MaxReviews == 3

\* ------------------------------------------------------- program constants
OutlierDays == 50
PaymentClamp == 1000
SampleSize == 5000
TopHead == 10

\* --------------------------------------------------------- pandas helpers
NaN == <<>>
None == <<>>
isna(c) == c = NaN
notna(c) == c # NaN
Some(v) == <<v>>

RECURSIVE Flatten(_)
Flatten(ss) == IF ss = <<>> THEN <<>> ELSE Head(ss) \o Flatten(Tail(ss))

RECURSIVE SumSeq(_)
SumSeq(s) == IF s = <<>> THEN 0 ELSE Head(s) + SumSeq(Tail(s))

\* Series.sum(): missing values are skipped, the sum of nothing is 0.
sum(col) == SumSeq([i \in 1..Len(SelectSeq(col, notna)) |-> SelectSeq(col, notna)[i][1]])

\* a / b on numpy floats: 0/0 is nan (no exception is raised).
Div(a, b) == IF b = 0 THEN NaN ELSE <<a, b>>

\* Series.mean(): missing values are skipped, the mean of nothing is NaN.
mean(col) == Div(sum(col), Len(SelectSeq(col, notna)))

Column(df, c) == [i \in 1..Len(df) |-> df[i][c]]

\* The distinct non-missing values of a column.
Values(df, c) == {df[i][c][1] : i \in {j \in 1..Len(df) : notna(df[j][c])}}

NullRow(cols) == [c \in cols |-> NaN]

\* DataFrame.merge(how='left'): every left row is kept, once per matching
\* right row in the right table's order, or once with missing right columns.
\* Keys are compared as pandas does: a missing key matches a missing key.
merge_left(L, R, on, rcols) ==
    Flatten([i \in 1..Len(L) |->
        LET m == SelectSeq(R, LAMBDA r : r[on] = L[i][on])
        IN  IF m = <<>> THEN <<L[i] @@ NullRow(rcols)>>
            ELSE [j \in 1..Len(m) |-> L[i] @@ m[j]]])

\* DataFrame.merge() with the default how='inner'.
merge_inner(L, R, on) ==
    Flatten([i \in 1..Len(L) |->
        LET m == SelectSeq(R, LAMBDA r : r[on] = L[i][on])
        IN  [j \in 1..Len(m) |-> L[i] @@ m[j]]])

\* Series.isin(values)
isin(c, df, col) == \E j \in 1..Len(df) : df[j][col] = c

\* ------------------------------------------------------- dates and times
date(ts) == ts \div 24
hour(ts) == ts % 24
day_order == <<"Monday", "Tuesday", "Wednesday", "Thursday", "Friday", "Saturday", "Sunday">>
\* 1970-01-01 was a Thursday.
day_name(ts) == day_order[((date(ts) + 3) % 7) + 1]
\* dt.to_period('M'), for the dates of January and February 1970.
to_period_M(ts) == IF date(ts) < 31 THEN "1970-01" ELSE "1970-02"
\* (a - b).dt.days: whole days, rounded down; missing if either is missing.
delta_days(a, b) == IF isna(a) \/ isna(b) THEN NaN ELSE Some((a[1] - b[1]) \div 24)

\* ------------------------------------------------------------ input files
FileNames == {"olist_orders_dataset.csv", "olist_order_items_dataset.csv",
              "olist_products_dataset.csv", "olist_order_payments_dataset.csv",
              "olist_order_reviews_dataset.csv", "olist_customers_dataset.csv",
              "olist_sellers_dataset.csv", "olist_geolocation_dataset.csv",
              "product_category_name_translation.csv"}

date_cols == {"order_purchase_timestamp", "order_approved_at", "order_delivered_carrier_date",
              "order_delivered_customer_date", "order_estimated_delivery_date"}
review_date_cols == {"review_creation_date", "review_answer_timestamp"}

\* The text of a date field as read_csv leaves it: <<>> an empty field,
\* <<t>> a well-formed date, Garbage a text that is no date.
Garbage == <<0, 0>>

Days == 1..MaxDay
Hours == {0, 23}
Timestamps == {d * 24 + h : d \in Days, h \in Hours}
Delays == {5, 30}

Order(id, purchase, delivered) ==
    [order_id |-> Some(id), customer_id |-> Some(id),
     order_purchase_timestamp |-> Some(purchase), order_approved_at |-> Some(purchase),
     order_delivered_carrier_date |-> NaN, order_delivered_customer_date |-> delivered,
     order_estimated_delivery_date |-> Some(purchase + 240)]
Item(oid, pid, price) ==
    [order_id |-> Some(oid), product_id |-> Some(pid), price |-> Some(price),
     freight_value |-> Some(price \div 10)]
Product(pid, cat, weight) ==
    [product_id |-> Some(pid), product_category_name |-> cat, product_weight_g |-> Some(weight)]
Translation(cat, english) ==
    [product_category_name |-> Some(cat), product_category_name_english |-> Some(english)]
Customer(id, city, state) ==
    [customer_id |-> Some(id), customer_city |-> Some(city), customer_state |-> Some(state)]
Review(oid, score, created) ==
    [order_id |-> Some(oid), review_score |-> Some(score),
     review_creation_date |-> Some(created), review_answer_timestamp |-> Some(created + 24)]
Payment(oid, type, installments, value) ==
    [order_id |-> Some(oid), payment_type |-> Some(type),
     payment_installments |-> Some(installments), payment_value |-> Some(value)]

BaseOrders == <<Order(1, 24 + 23, Some(24 + 23 + 30)), Order(2, 48, NaN)>>
BaseItems == <<Item(1, "p1", 100), Item(2, "p2", 50)>>
BaseProducts == <<Product("p1", Some("cama"), 500), Product("p2", Some("pc_gamer"), 900)>>
BaseTranslation == <<Translation("cama", "bed")>>
BaseCustomers == <<Customer(1, "sao paulo", "SP"), Customer(2, "campinas", "SP")>>
BaseReviews == <<Review(1, 5, 48), Review(2, 1, 72)>>
BasePayments == <<Payment(1, "credit_card", 2, 100), Payment(2, "boleto", 1, 1200)>>

BaseFiles == [missing |-> {}, orders |-> BaseOrders, items |-> BaseItems,
              products |-> BaseProducts, category_translation |-> BaseTranslation,
              customers |-> BaseCustomers, reviews |-> BaseReviews, payments |-> BasePayments]

SeqsUpTo(S, lo, hi) == UNION {[1..n -> S] : n \in lo..hi}

\* Two orders bought at any time of any day; the first is delivered.
OrdersByDate ==
    {<<Order(1, ts[1], Some(ts[1] + 30)), Order(2, ts[2], NaN)>> :
        ts \in Timestamps \X Timestamps}
\* Orders bought late on the first two days in turn, each undelivered (0) or
\* delivered after some delay.
OrdersByDelivery ==
    {[i \in 1..Len(ds) |->
        LET t == (((i - 1) % 2) + 1) * 24 + 23
        IN  Order(i, t, IF ds[i] = 0 THEN NaN ELSE Some(t + ds[i]))] :
        ds \in SeqsUpTo(Delays \cup {0}, 1, MaxOrders)}
\* Items of the two orders, of a known product and of one that is not in the
\* products file; an order may have several items or none.
ItemTables ==
    {[i \in 1..Len(s) |-> Item(s[i][1], s[i][2], 50 * i)] :
        s \in SeqsUpTo({1, 2} \X {"p1", "p9"}, 0, MaxItems)}
\* The base items of the orders that are in the orders table.
ItemsOf(orders) ==
    SelectSeq(BaseItems, LAMBDA r : \E k \in 1..Len(orders) : orders[k].order_id = r.order_id)
\* Reviews of the two orders and of an order that is not in the orders file,
\* all written on the second day; the first two give five stars, the others one.
ReviewTables ==
    {[i \in 1..Len(s) |-> Review(s[i], IF i <= 2 THEN 5 ELSE 1, 48)] :
        s \in SeqsUpTo({1, 2, 3}, 0, MaxReviews)}
\* Categories with a translation, without one, and left empty in the file.
ProductTables ==
    {<<Product("p1", c[1], 500), Product("p2", c[2], 900)>> :
        c \in {Some("cama"), Some("pc_gamer"), NaN} \X {Some("cama"), Some("pc_gamer"), NaN}}
TranslationTables ==
    {<<>>, BaseTranslation, BaseTranslation \o <<Translation("pc_gamer", "gaming_pc")>>}
\* One date field that is no date.
BadDateFiles ==
    {[BaseFiles EXCEPT !.orders[1][c] = Garbage] : c \in date_cols}
    \cup {[BaseFiles EXCEPT !.reviews[2][c] = Garbage] : c \in review_date_cols}

InputFiles ==
    {[BaseFiles EXCEPT !.orders = o, !.items = ItemsOf(o)] :
        o \in OrdersByDate \cup OrdersByDelivery}
    \cup {[BaseFiles EXCEPT !.items = t] : t \in ItemTables}
    \cup {[BaseFiles EXCEPT !.reviews = t] : t \in ReviewTables}
    \cup {[BaseFiles EXCEPT !.products = p, !.category_translation = t] :
            p \in ProductTables, t \in TranslationTables}
    \cup {[BaseFiles EXCEPT !.missing = {f}] : f \in FileNames}
    \cup BadDateFiles

\* -------------------------------------------------------------- load_data
\* pd.read_csv of the nine files: raises when one is missing or unreadable.
read_csv_raises(f) == f.missing # {}

\* A to_datetime that never raises (errors='coerce').
to_datetime_coerce(df, cols) == FALSE
\* pd.to_datetime(df[col]) raises on a text that is no date.
to_datetime_raises(df, cols) == \E i \in 1..Len(df) : \E c \in cols : Len(df[i][c]) > 1

\* 2. products.merge(category_translation, how='left') and the fillna.
merge_translation(products, category_translation) ==
    LET m == merge_left(products, category_translation, "product_category_name",
                        {"product_category_name_english"})
    IN  [i \in 1..Len(m) |->
            [m[i] EXCEPT !.product_category_name_english =
                IF isna(@) THEN m[i].product_category_name ELSE @]]

ItemCols == {"product_id", "price", "freight_value"}
ProductCols == {"product_category_name", "product_weight_g", "product_category_name_english"}
CustomerCols == {"customer_city", "customer_state"}

\* 3. orders.merge(items).merge(products).merge(customers), all how='left'.
build_master(orders, items, products, customers) ==
    merge_left(merge_left(merge_left(orders, items, "order_id", ItemCols),
                          products, "product_id", ProductCols),
               customers, "customer_id", CustomerCols)

\* The time columns added to master_df (every modelled date is in 1970).
add_time_columns(df) ==
    [i \in 1..Len(df) |->
        df[i] @@ [year |-> Some(1970),
                  month_year |-> Some(to_period_M(df[i].order_purchase_timestamp[1])),
                  day_of_week |-> Some(day_name(df[i].order_purchase_timestamp[1])),
                  hour |-> Some(hour(df[i].order_purchase_timestamp[1]))]]

\* load_data(): the returned dict, or None after any exception.
load_data(f) ==
    IF \/ read_csv_raises(f)
       \/ to_datetime_raises(f.orders, date_cols)
       \/ to_datetime_raises(f.reviews, review_date_cols)
    THEN None
    ELSE LET products == merge_translation(f.products, f.category_translation)
         IN  Some([orders |-> f.orders, items |-> f.items,
                   master_df |-> add_time_columns(
                       build_master(f.orders, f.items, products, f.customers)),
                   reviews |-> f.reviews, payments |-> f.payments,
                   products |-> products])

\* ------------------------------------------------------------ date filter
\* min_date, max_date: the first and last purchase date of master_df.
min_date(master_df) ==
    CHOOSE d \in {date(master_df[i].order_purchase_timestamp[1]) : i \in 1..Len(master_df)} :
        \A i \in 1..Len(master_df) : d <= date(master_df[i].order_purchase_timestamp[1])
max_date(master_df) ==
    CHOOSE d \in {date(master_df[i].order_purchase_timestamp[1]) : i \in 1..Len(master_df)} :
        \A i \in 1..Len(master_df) : d >= date(master_df[i].order_purchase_timestamp[1])

\* A range test that compares the timestamp with midnight of each bound.
InRangeByTimestamp(ts, s, e) == ts[1] >= s * 24 /\ ts[1] <= e * 24
\* (col.dt.date >= start_date) & (col.dt.date <= end_date)
InRange(ts, s, e) == date(ts[1]) >= s /\ date(ts[1]) <= e

\* df[(...dt.date >= start_date) & (...dt.date <= end_date)]
filter_dates(df, s, e) == SelectSeq(df, LAMBDA r : InRange(r.order_purchase_timestamp, s, e))

\* ------------------------------------------------------ group-by helpers
Rows(df, col, k) == SelectSeq(df, LAMBDA r : r[col] = Some(k))
\* df.groupby(key)[col].sum(): a Series indexed by the non-missing keys.
groupby_sum(df, key, col) == [k \in Values(df, key) |-> sum(Column(Rows(df, key, k), col))]
\* df.groupby(key)[col].mean()
groupby_mean(df, key, col) == [k \in Values(df, key) |-> mean(Column(Rows(df, key, k), col))]
\* df[col].value_counts(): the count of each non-missing value.
value_counts(df, col) == [k \in Values(df, col) |-> Len(Rows(df, col, k))]

\* x >= y on floats kept as quotients; a missing value sorts last.
Geq(x, y) == isna(y) \/ (notna(x) /\ x[1] * y[2] >= y[1] * x[2])
IntGeq(x, y) == x >= y

\* The orders of a Series' keys that sort its values in descending order (the
\* order of equal values is the sort's own choice).
SortedDesc(f) ==
    {s \in [1..Cardinality(DOMAIN f) -> DOMAIN f] :
        /\ \A i, j \in DOMAIN s : i # j => s[i] # s[j]
        /\ \A i, j \in DOMAIN s : i < j => IntGeq(f[s[i]], f[s[j]])}
\* The same for a Series of floats.
SortedDescFloat(f) ==
    {s \in [1..Cardinality(DOMAIN f) -> DOMAIN f] :
        /\ \A i, j \in DOMAIN s : i # j => s[i] # s[j]
        /\ \A i, j \in DOMAIN s : i < j => Geq(f[s[i]], f[s[j]])}
head(s, n) == SubSeq(s, 1, IF Len(s) < n THEN Len(s) ELSE n)

\* ------------------------------------------------------------------ pages
Pages == {"Overview", "Sales Analysis", "Product Insights", "Customer Demographics",
          "Review Analysis", "Payment Analysis", "Delivery Analysis"}

delivery_days(df) ==
    [i \in 1..Len(df) |->
        delta_days(df[i].order_delivered_customer_date, df[i].order_purchase_timestamp)]

\* if total_orders > 0: total_revenue / total_orders, else 0
UnguardedOrderValue(total_revenue, total_orders) == Div(total_revenue, total_orders)
avg_order_value(total_revenue, total_orders) ==
    IF total_orders > 0 THEN Div(total_revenue, total_orders) ELSE <<0, 1>>

\* A mean that counts a missing delivery as zero days.
MeanDeliveryZeroFilled(fo) ==
    Div(sum(delivery_days(fo)), Len(fo))
\* (delivered - purchase).dt.days.mean()
avg_delivery_days(fo) == mean(delivery_days(fo))

OverviewPage(fdf, fo) ==
    LET total_revenue == sum(Column(fdf, "price"))
        total_orders == Cardinality(Values(fo, "order_id"))
    IN  {[total_revenue |-> total_revenue,
          total_orders |-> total_orders,
          avg_order_value |-> avg_order_value(total_revenue, total_orders),
          avg_delivery_days |-> avg_delivery_days(fo),
          sales_over_time |-> groupby_sum(fdf, "month_year", "price")]}

\* groupby('day_of_week')['price'].sum().reindex(day_order).reset_index()
sales_by_day(fdf) ==
    LET g == groupby_sum(fdf, "day_of_week", "price")
    IN  [i \in 1..Len(day_order) |->
            [day_of_week |-> day_order[i],
             price |-> IF day_order[i] \in DOMAIN g THEN Some(g[day_order[i]]) ELSE NaN]]

SalesPage(fdf) ==
    {[sales_by_day |-> sales_by_day(fdf),
      sales_by_hour |-> groupby_sum(fdf, "hour", "price")]}

\* groupby(category)['price'].sum().sort_values(ascending=False).head(top_n)
ProductPage(fdf, n) ==
    LET g == groupby_sum(fdf, "product_category_name_english", "price")
    IN  {[category_sales |->
            [i \in 1..Len(head(s, n)) |->
                [product_category_name_english |-> s[i], price |-> g[s[i]]]]] :
         s \in SortedDesc(g)}

\* value_counts().head(10) of customer_state and of customer_city
CustomerPage(fdf) ==
    LET st == value_counts(fdf, "customer_state")
        ct == value_counts(fdf, "customer_city")
    IN  {[state_counts |-> [i \in 1..Len(head(s, TopHead)) |-> [State |-> s[i], Orders |-> st[s[i]]]],
          city_counts |-> [i \in 1..Len(head(c, TopHead)) |-> [City |-> c[i], Orders |-> ct[c[i]]]]] :
         s \in SortedDesc(st), c \in SortedDesc(ct)}

\* A review table that the date filter does not touch.
AllReviews(reviews, fo) == reviews
\* reviews[reviews['order_id'].isin(filtered_orders['order_id'])]
relevant_reviews(reviews, fo) == SelectSeq(reviews, LAMBDA r : isin(r.order_id, fo, "order_id"))

\* relevant_reviews.merge(filtered_orders), delivery_days, delivery_days < 50
reviews_orders(rr, fo) ==
    LET m == merge_inner(rr, fo, "order_id")
        d == delivery_days(m)
        withdays == [i \in 1..Len(m) |-> m[i] @@ [delivery_days |-> d[i]]]
    IN  SelectSeq(withdays, LAMBDA r : notna(r.delivery_days) /\ r.delivery_days[1] < OutlierDays)

ReviewPage(reviews, fo) ==
    LET rr == relevant_reviews(reviews, fo)
    IN  {[review_dist |-> value_counts(rr, "review_score"),
          reviews_orders |-> reviews_orders(rr, fo)]}

PaymentPage(payments, fo) ==
    LET rp == SelectSeq(payments, LAMBDA r : isin(r.order_id, fo, "order_id"))
    IN  {[payment_counts |-> value_counts(rp, "payment_type"),
          relevant_payments |-> rp,
          safe_payments |-> SelectSeq(rp, LAMBDA r : notna(r.payment_value)
                                                     /\ r.payment_value[1] < PaymentClamp)]}

\* df_delivery: a copy of filtered_orders with delivery_days, missing ones dropped
df_delivery(fo) ==
    LET d == delivery_days(fo)
        withdays == [i \in 1..Len(fo) |-> fo[i] @@ [delivery_days |-> d[i]]]
    IN  SelectSeq(withdays, LAMBDA r : notna(r.delivery_days))

\* items.merge(products[['product_id', 'product_weight_g']], how='left'), of the filtered orders
relevant_items(items, products, fo) ==
    LET weights == [i \in 1..Len(products) |->
                        [product_id |-> products[i].product_id,
                         product_weight_g |-> products[i].product_weight_g]]
    IN  SelectSeq(merge_left(items, weights, "product_id", {"product_weight_g"}),
                  LAMBDA r : isin(r.order_id, fo, "order_id"))

\* relevant_items.sample(5000): any 5000 of the rows
sample(df, n) ==
    {[i \in 1..n |-> df[ix[i]]] :
        ix \in {f \in [1..n -> 1..Len(df)] : \A i, j \in 1..n : i # j => f[i] # f[j]}}

DeliveryPage(d, fdf, fo) ==
    LET ri == relevant_items(d.items, d.products, fo)
        sf == groupby_mean(fdf, "customer_state", "freight_value")
    IN  {[df_delivery |-> df_delivery(fo),
          plot_data |-> pd,
          state_freight |-> [i \in 1..Len(s) |-> [customer_state |-> s[i], freight_value |-> sf[s[i]]]]] :
         pd \in IF Len(ri) > SampleSize THEN sample(ri, SampleSize) ELSE {ri},
         s \in SortedDescFloat(sf)}

\* What one page computes from the shared tables and the filtered views.
PageOutputs(p, d, fdf, fo, n) ==
    CASE p = "Overview" -> OverviewPage(fdf, fo)
      [] p = "Sales Analysis" -> SalesPage(fdf)
      [] p = "Product Insights" -> ProductPage(fdf, n)
      [] p = "Customer Demographics" -> CustomerPage(fdf)
      [] p = "Review Analysis" -> ReviewPage(d.reviews, fo)
      [] p = "Payment Analysis" -> PaymentPage(d.payments, fo)
      [] p = "Delivery Analysis" -> DeliveryPage(d, fdf, fo)

\* A Delivery page that adds delivery_days to the shared orders table and
\* drops its undelivered rows in place.
DeliveryInPlace(d, fo) == [d EXCEPT !.orders = df_delivery(@)]
\* The shared tables after the Delivery page: its writes go to a copy.
SharedAfterDelivery(d, fo) == d
\* The shared tables after the Review page: its writes go to the merge's result.
SharedAfterReview(d, fo) == d

\* ---------------------------------------------------------------- actions
TopNs == {5, 20}

Init ==
    /\ files \in InputFiles
    /\ pc = "start"
    /\ data = None
    /\ error = FALSE
    /\ page = "none"
    /\ start_date = 0
    /\ end_date = 0
    /\ top_n = 10
    /\ filtered_df = <<>>
    /\ filtered_orders = <<>>
    /\ out = None

\* Lines 117-372 of one script run: the sidebar's selection, the filter, the page.
Render(p, d, s, e, n) ==
    /\ page' = p
    /\ start_date' = s
    /\ end_date' = e
    /\ top_n' = n
    /\ filtered_df' = filter_dates(d.master_df, s, e)
    /\ filtered_orders' = filter_dates(d.orders, s, e)
    /\ \E o \in PageOutputs(p, d, filtered_df', filtered_orders', n) : out' = Some(o)

\* The session's first run: load_data() is computed; on None the script stops,
\* else the Overview page is drawn for the whole range of dates.
FirstRun ==
    /\ pc = "start"
    /\ data' = load_data(files)
    /\ \/ /\ data' = None
          /\ error' = TRUE
          /\ pc' = "stopped"
          /\ UNCHANGED <<page, start_date, end_date, top_n, filtered_df, filtered_orders, out>>
       \/ /\ data' # None
          /\ pc' = "ready"
          /\ Render("Overview", data'[1], min_date(data'[1].master_df),
                    max_date(data'[1].master_df), top_n)
          /\ UNCHANGED error
    /\ UNCHANGED files

DateRange == min_date(data[1].master_df)..max_date(data[1].master_df)

\* A rerun after a change of page or date range; load_data() is cached.
Rerun(p, n) ==
    /\ pc = "ready"
    /\ \E s, e \in DateRange : Render(p, data[1], s, e, n)
    /\ UNCHANGED <<files, pc, error>>

Overview == Rerun("Overview", top_n) /\ UNCHANGED data
SalesAnalysis == Rerun("Sales Analysis", top_n) /\ UNCHANGED data
ProductInsights == (\E n \in TopNs : Rerun("Product Insights", n)) /\ UNCHANGED data
CustomerDemographics == Rerun("Customer Demographics", top_n) /\ UNCHANGED data
ReviewAnalysis ==
    /\ Rerun("Review Analysis", top_n)
    /\ data' = Some(SharedAfterReview(data[1], filtered_orders'))
PaymentAnalysis == Rerun("Payment Analysis", top_n) /\ UNCHANGED data
DeliveryAnalysis ==
    /\ Rerun("Delivery Analysis", top_n)
    /\ data' = Some(SharedAfterDelivery(data[1], filtered_orders'))

Next ==
    \/ FirstRun
    \/ Overview
    \/ SalesAnalysis
    \/ ProductInsights
    \/ CustomerDemographics
    \/ ReviewAnalysis
    \/ PaymentAnalysis
    \/ DeliveryAnalysis

Spec == Init /\ [][Next]_vars

\* ----------------------------------------------------------------- claims
RECURSIVE SetSum(_, _)
SetSum(S, f) == IF S = {} THEN 0 ELSE LET x == CHOOSE y \in S : TRUE
                                      IN  f[x] + SetSum(S \ {x}, f)

\* The orders of the orders file bought from start_date to end_date.
OrdersInRange ==
    {k \in 1..Len(files.orders) :
        /\ start_date <= files.orders[k].order_purchase_timestamp[1] \div 24
        /\ files.orders[k].order_purchase_timestamp[1] \div 24 <= end_date}

\* C1: the fact table built by load_data has exactly as many rows as the
\* OrderItem table (product_id and customer_id are unique in every input).
C1_FactRowsEqualItemRows ==
    pc = "ready" => Len(data[1].master_df) = Len(files.items)

\* C2: a row of the fact table, and of the orders table, is in the filtered
\* view exactly when the date of its purchase timestamp lies in
\* [start_date, end_date], whatever its time of day.
C2_DateFilterInclusive ==
    page # "none" =>
        /\ \A i \in 1..Len(data[1].master_df) :
            LET r == data[1].master_df[i]
                d == r.order_purchase_timestamp[1] \div 24
            IN  (\E j \in 1..Len(filtered_df) : filtered_df[j] = r)
                    <=> (start_date <= d /\ d <= end_date)
        /\ \A i \in 1..Len(data[1].orders) :
            LET r == data[1].orders[i]
                d == r.order_purchase_timestamp[1] \div 24
            IN  (\E j \in 1..Len(filtered_orders) : filtered_orders[j] = r)
                    <=> (start_date <= d /\ d <= end_date)

\* An order bought at 23:00 on end_date is kept and one bought the day before
\* start_date is left out.
C2_Witness ==
    /\ page # "none"
    /\ \E j \in 1..Len(filtered_orders) :
        filtered_orders[j].order_purchase_timestamp = <<end_date * 24 + 23>>
    /\ \E i \in 1..Len(data[1].orders) :
        /\ data[1].orders[i].order_purchase_timestamp[1] \div 24 = start_date - 1
        /\ \A j \in 1..Len(filtered_orders) : filtered_orders[j] # data[1].orders[i]

\* C3: with start_date > end_date both filtered tables are empty and the page
\* drawn shows zeros or empty tables, with no NaN.
C3_EmptyRangeZeroOutput ==
    (page # "none" /\ start_date > end_date) =>
        /\ filtered_df = <<>>
        /\ filtered_orders = <<>>
        /\ page = "Overview" =>
            /\ out[1].total_revenue = 0
            /\ out[1].total_orders = 0
            /\ out[1].avg_order_value = <<0, 1>>
            /\ out[1].avg_delivery_days # <<>>
            /\ DOMAIN out[1].sales_over_time = {}
        /\ page = "Sales Analysis" =>
            /\ \A i \in DOMAIN out[1].sales_by_day : out[1].sales_by_day[i].price # <<>>
            /\ DOMAIN out[1].sales_by_hour = {}
        /\ page = "Product Insights" => out[1].category_sales = <<>>
        /\ page = "Customer Demographics" =>
            out[1].state_counts = <<>> /\ out[1].city_counts = <<>>
        /\ page = "Review Analysis" =>
            DOMAIN out[1].review_dist = {} /\ out[1].reviews_orders = <<>>
        /\ page = "Payment Analysis" =>
            DOMAIN out[1].payment_counts = {} /\ out[1].safe_payments = <<>>
        /\ page = "Delivery Analysis" =>
            out[1].df_delivery = <<>> /\ out[1].plot_data = <<>> /\ out[1].state_freight = <<>>

\* C4: Sales by day of week has the seven days Monday to Sunday in order, and
\* a day with no fact row in the range has revenue zero.
C4_SevenWeekdaysZeroFilled ==
    page = "Sales Analysis" =>
        LET sbd == out[1].sales_by_day
            days == <<"Monday", "Tuesday", "Wednesday", "Thursday", "Friday", "Saturday", "Sunday">>
        IN  /\ Len(sbd) = 7
            /\ \A i \in 1..7 : sbd[i].day_of_week = days[i]
            /\ \A i \in 1..7 :
                (\A j \in 1..Len(filtered_df) : filtered_df[j].day_of_week # <<days[i]>>)
                    => sbd[i].price = <<0>>

\* C5: the Overview's mean delivery days is the mean of the whole days from
\* purchase to delivery over the filtered orders that have a delivery date;
\* an undelivered order adds nothing to the sum or to the count.
C5_MeanDeliveryOverDelivered ==
    page = "Overview" =>
        LET delivered == {k \in OrdersInRange :
                            files.orders[k].order_delivered_customer_date # <<>>}
            days == [k \in delivered |->
                        (files.orders[k].order_delivered_customer_date[1]
                         - files.orders[k].order_purchase_timestamp[1]) \div 24]
        IN  out[1].avg_delivery_days =
                IF delivered = {} THEN <<>>
                ELSE <<SetSum(delivered, days), Cardinality(delivered)>>

\* The range holds an undelivered order and one delivered after a day or more.
C5_Witness ==
    /\ page = "Overview"
    /\ \E j \in 1..Len(filtered_orders) : filtered_orders[j].order_delivered_customer_date = <<>>
    /\ out[1].avg_delivery_days # <<>>
    /\ out[1].avg_delivery_days[1] > 0

\* C6: a review is counted in the review-score distribution exactly when its
\* order_id is that of an order bought in the range; each review of such an
\* order is counted.
C6_ReviewsOfFilteredOrders ==
    page = "Review Analysis" =>
        \A score \in 1..5 :
            LET counted == {i \in 1..Len(files.reviews) :
                              /\ files.reviews[i].review_score = <<score>>
                              /\ \E k \in OrdersInRange :
                                    files.orders[k].order_id = files.reviews[i].order_id}
                dist == out[1].review_dist
            IN  (IF score \in DOMAIN dist THEN dist[score] ELSE 0) = Cardinality(counted)

\* Two reviews of one order in the range are both counted, and a review
\* written inside the range for an order bought before it is not.
C6_Witness ==
    /\ page = "Review Analysis"
    /\ 5 \in DOMAIN out[1].review_dist
    /\ out[1].review_dist[5] = 2
    /\ Len(filtered_orders) = 1
    /\ \E i \in 1..Len(files.reviews) :
        /\ start_date <= files.reviews[i].review_creation_date[1] \div 24
        /\ files.reviews[i].review_creation_date[1] \div 24 <= end_date
        /\ \E k \in 1..Len(files.orders) :
            /\ files.orders[k].order_id = files.reviews[i].order_id
            /\ k \notin OrdersInRange

\* C7: after load_data every product row has a category name in English that
\* is neither missing nor empty: the translation when there is one, the raw
\* category name when there is none.
C7_CategoryNeverNull ==
    pc = "ready" =>
        \A i \in 1..Len(data[1].products) :
            LET p == data[1].products[i]
                tr == {files.category_translation[k].product_category_name_english :
                        k \in {j \in 1..Len(files.category_translation) :
                                files.category_translation[j].product_category_name
                                    = p.product_category_name}}
            IN  /\ p.product_category_name_english # <<>>
                /\ p.product_category_name_english # <<"">>
                /\ tr # {} => p.product_category_name_english \in tr
                /\ tr = {} => p.product_category_name_english = p.product_category_name

\* C8: the Overview's average order value is total_revenue / total_orders when
\* the range holds an order and exactly 0 when it holds none; it is never NaN.
C8_AvgOrderValue ==
    page = "Overview" =>
        LET n == Cardinality({files.orders[k].order_id : k \in OrdersInRange})
        IN  /\ out[1].total_orders = n
            /\ n > 0 => out[1].avg_order_value = <<out[1].total_revenue, n>>
            /\ n = 0 => out[1].avg_order_value = <<0, 1>>
            /\ out[1].avg_order_value # <<>>

\* An Overview of a range with no order in it.
C8_Witness ==
    /\ page = "Overview"
    /\ filtered_orders = <<>>
    /\ out[1].total_orders = 0
    /\ out[1].avg_order_value = <<0, 1>>

\* A file is missing or a date field of orders or reviews is no date.
LoadMustFail ==
    \/ files.missing # {}
    \/ \E i \in 1..Len(files.orders) : \E c \in date_cols : files.orders[i][c] = Garbage
    \/ \E i \in 1..Len(files.reviews) : \E c \in review_date_cols : files.reviews[i][c] = Garbage

\* C9: when a file is missing or a date column cannot be coerced, the load
\* fails, the error is shown, and nothing runs after it: no date filter, no page.
C9_LoadFailureHalts ==
    (pc # "start" /\ LoadMustFail) =>
        /\ pc = "stopped"
        /\ error
        /\ data = None
        /\ page = "none"
        /\ filtered_df = <<>>
        /\ filtered_orders = <<>>
        /\ out = None

\* The run stopped on a purchase timestamp that is no date.
C9_Witness ==
    /\ pc = "stopped"
    /\ error
    /\ files.missing = {}
    /\ files.orders[1].order_purchase_timestamp = Garbage

====
